---- MODULE Spec2Model ----
(***************************************************************************)
(* The JSON-RPC over HTTP endpoint of the OpenCTI MCP server: the POST     *)
(* /mcp route, the per-request HttpOnceTransport, and the tools/list and   *)
(* tools/call handlers the Session Engine (the MCP SDK Server) runs.       *)
(*                                                                         *)
(* JavaScript values are tokens: "undefined" is an absent field, "null"    *)
(* is null, "n:0" the number 0, "s:" the empty string, "s:1" the string    *)
(* "1", "n:5" the number 5; a method name stands for itself.               *)
(***************************************************************************)
EXTENDS Integers, Sequences, FiniteSets, TLC

\* Largest JSON array posted as a body.
MaxBatch == 2

\* Most close() calls the Session Engine makes on one adapter.
MaxClose == 2

\* The HTTP connections on which requests arrive, one request at a time.
Conns == {"c1"}

\* JSON-RPC error codes written by the server.
ParseError == -32700
InvalidRequest == -32600
InternalError == -32603

Falsy == {"undefined", "null", "n:0", "s:"}

Truthy(v) == v \notin Falsy

\* `x || null`
OrNull(v) == IF Truthy(v) THEN v ELSE "null"

JsonrpcValues == {"undefined", "2.0", "1.0"}

IdValues == {"undefined", "n:0", "s:", "s:1"}

MethodValues ==
  {"undefined", "n:5", "initialize", "notifications/initialized",
   "ping", "tools/list", "tools/call"}

\* What the client puts in the POST body.
RawKinds == {"none", "malformed", "primitive", "array", "object"}

----------------------------------------------------------------------------
(* The state of the server.                                                *)

VARIABLES
  req,        \* req[c]: the POST on connection c and its route handler
  res,        \* res[c]: the Express response of connection c
  transport,  \* transport[c]: the HttpOnceTransport of the request
  engine,     \* engine[c]: what the Session Engine did with the message
  served,     \* the kinds of request the process has completed so far
  connected,  \* the connection whose adapter the shared Server was last
              \* connected to ("none" before the first connect)
  http        \* http.token: MCP_AUTH_TOKEN; http.request[c]: the verb, path
              \* and Authorization header of the request on connection c
              \* and how far it got through the middleware

vars == <<req, res, transport, engine, served, connected, http>>

----------------------------------------------------------------------------
(* Values: results, messages and response bodies.                          *)

NoResult == [kind |-> "undefined"]

InitializeResult ==
  [kind |-> "initialize", protocolVersion |-> "2024-11-05",
   listChanged |-> FALSE, serverName |-> "opencti-server"]

PingResult == [kind |-> "empty"]

\* A JSON-RPC message or an HTTP body.  shape: "result" {jsonrpc,id,result},
\* "error" {jsonrpc,id,error:{code,message}}, "call" {jsonrpc,[id,]method},
\* "bare" a value without a jsonrpc field, "plain" a JSON object that is not
\* JSON-RPC, "empty" a response ended without a body, "none" nothing yet.
\* ser is FALSE when JSON.stringify throws on the value.
Message(shape, id, code, result, ser) ==
  [shape |-> shape, id |-> id, code |-> code, result |-> result, ser |-> ser]

RpcResult(id, r) == Message("result", id, 0, r, TRUE)

RpcError(id, code) == Message("error", id, code, NoResult, TRUE)

NoBody == Message("none", "undefined", 0, NoResult, TRUE)

EmptyBody == Message("empty", "undefined", 0, NoResult, TRUE)

PlainError == Message("plain", "undefined", 0, NoResult, TRUE)

HasJsonrpc(m) == m.shape \in {"result", "error", "call"}

\* The request body as the route sees it (req.body); n is the number of
\* elements of an array body.
Body(t, jsonrpc, id, method, n) ==
  [t |-> t, jsonrpc |-> jsonrpc, id |-> id, method |-> method, n |-> n]

UndefinedBody == Body("undefined", "undefined", "undefined", "undefined", 0)

EmptyObject == Body("object", "undefined", "undefined", "undefined", 0)

ArrayBody(n) == Body("array", "undefined", "undefined", "undefined", n)

----------------------------------------------------------------------------
(* The Express response object.                                            *)

\* statusCode: the property res.status() sets; status and body: what was
\* written to the client (status 0: nothing yet); by: the code path whose
\* write reached the client; attempts: calls of json()/end(); writes: calls
\* that wrote the response.
NewResponse ==
  [headersSent |-> FALSE, statusCode |-> 200, status |-> 0, body |-> NoBody,
   attempts |-> 0, writes |-> 0, by |-> "none"]

\* res.status(code).json(body): sets the status, then serialises and writes;
\* throws when the body does not serialise or the headers were already sent.
resJson(r, code, body, by) ==
  LET r1 == [r EXCEPT !.statusCode = code, !.attempts = @ + 1]
  IN  IF ~body.ser \/ r.headersSent
        THEN [res |-> r1, threw |-> TRUE]
        ELSE [res |-> [r1 EXCEPT !.headersSent = TRUE, !.status = code,
                                 !.body = body, !.writes = @ + 1, !.by = by],
              threw |-> FALSE]

\* res.status(code).end(): writes the status line and no body; a response
\* already ended ignores it.
resEnd(r, code, by) ==
  LET r1 == [r EXCEPT !.statusCode = code, !.attempts = @ + 1]
  IN  IF r.headersSent
        THEN r1
        ELSE [r1 EXCEPT !.headersSent = TRUE, !.status = code,
                        !.body = EmptyBody, !.writes = @ + 1, !.by = by]

----------------------------------------------------------------------------
(* HttpOnceTransport.  An operator takes and returns the adapter's state   *)
(* X = [inbound, res, t, threw, awaits]: the bound message, the bound      *)
(* response, the fields of the object, whether the call threw, and whether *)
(* start() is suspended on responsePromise.                                *)

NewTransport ==
  [exists |-> FALSE, responded |-> FALSE, resolved |-> FALSE,
   resolveCalls |-> 0, onmessageCalls |-> 0, onerrorCalls |-> 0,
   oncloseCalls |-> 0]

\* new HttpOnceTransport(inbound, res)
Construct(inbound, r) ==
  [inbound |-> inbound, res |-> r, t |-> [NewTransport EXCEPT !.exists = TRUE],
   threw |-> FALSE, awaits |-> FALSE]

\* this.responseResolve(): resolving a resolved promise changes nothing.
responseResolve(t) == [t EXCEPT !.resolved = TRUE, !.resolveCalls = @ + 1]

\* The envelope send() builds around a message that is not a full response.
Wrap(id, message) ==
  [RpcResult(id, IF message.shape = "bare" THEN message.result
                 ELSE [kind |-> "message", inner |-> message])
     EXCEPT !.ser = message.ser]

\* send() that resolves responsePromise after a successful write only,
\* not in a finally block.
sendResolveOnSuccess(X, message) ==
  IF X.t.responded THEN X
  ELSE
    LET t1 == [X.t EXCEPT !.responded = TRUE]
        direct == HasJsonrpc(message) /\ message.id # "undefined"
        w == IF direct
               THEN resJson(X.res, 200, message, "direct")
               ELSE resJson(X.res, 200, Wrap(OrNull(X.inbound.id), message),
                            "wrapped")
        r2 == IF w.threw /\ ~w.res.headersSent
                THEN resJson(w.res, 500,
                             RpcError(OrNull(X.inbound.id), InternalError),
                             "fallback").res
                ELSE w.res
    IN  [X EXCEPT !.t = IF w.threw THEN t1 ELSE responseResolve(t1),
                  !.res = r2]

send(X, message) ==
  IF X.t.responded THEN X
  ELSE
    LET t1 == [X.t EXCEPT !.responded = TRUE]
        direct == HasJsonrpc(message) /\ message.id # "undefined"
        w == IF direct
               THEN resJson(X.res, 200, message, "direct")
               ELSE resJson(X.res, 200, Wrap(OrNull(X.inbound.id), message),
                            "wrapped")
        r2 == IF w.threw /\ ~w.res.headersSent
                THEN resJson(w.res, 500,
                             RpcError(OrNull(X.inbound.id), InternalError),
                             "fallback").res
                ELSE w.res
    IN  [X EXCEPT !.t = responseResolve(t1), !.res = r2]

sendError(X, code, id) ==
  IF X.t.responded THEN X
  ELSE
    LET t1 == [X.t EXCEPT !.responded = TRUE]
        w == resJson(X.res, 200, RpcError(id, code), "sendError")
    IN  IF w.threw
          THEN [X EXCEPT !.t = t1, !.res = w.res, !.threw = TRUE]
          ELSE [X EXCEPT !.t = responseResolve(t1), !.res = w.res]

\* close() without the test of responded and headersSent.
closeUnguarded(X) ==
  [X EXCEPT !.res = resEnd(@, 204, "close"),
            !.t = [responseResolve(@) EXCEPT !.oncloseCalls = @ + 1]]

close(X) ==
  LET X1 == IF ~X.t.responded /\ ~X.res.headersSent
              THEN [X EXCEPT !.res = resEnd(@, 204, "close"),
                             !.t = responseResolve(@)]
              ELSE X
  IN  [X1 EXCEPT !.t.oncloseCalls = @ + 1]

\* The response start() builds for initialize.
InitializeResponseOrNull(inbound) ==
  RpcResult(OrNull(inbound.id), InitializeResult)

InitializeResponse(inbound) == RpcResult(inbound.id, InitializeResult)

\* The notifications/initialized branch without the call of responseResolve.
notificationsInitializedUnresolved(X) ==
  [X EXCEPT !.res = resEnd(@, 204, "notification"), !.t.responded = TRUE]

\* The branch of start() for notifications/initialized: marks the adapter
\* responded, ends the response with 204 and resolves responsePromise.
notificationsInitialized(X) ==
  [X EXCEPT !.res = resEnd(@, 204, "notification"),
            !.t = responseResolve([@ EXCEPT !.responded = TRUE])]

\* The catch block of start().
startCatch(X) ==
  LET X1 == [X EXCEPT !.t.onerrorCalls = @ + 1, !.threw = FALSE]
  IN  IF X1.t.responded THEN X1
      ELSE IF X1.inbound.t = "undefined"
        THEN [X1 EXCEPT !.threw = TRUE]
        ELSE sendError(X1, InternalError, OrNull(X1.inbound.id))

\* A call made inside the try block of start().
Try(X) == IF X.threw THEN startCatch(X) ELSE X

\* The format checks without the one made for notifications.
formatRejectsRequestsOnly(inbound) ==
  /\ inbound.id # "undefined"
  /\ (~Truthy(inbound.jsonrpc) \/ ~Truthy(inbound.method))

\* The format checks start() makes before it delivers a message: a request
\* needs jsonrpc and method, a notification needs method.
formatRejects(inbound) ==
  LET isNotification == inbound.id = "undefined"
  IN  \/ ~isNotification
           /\ (~Truthy(inbound.jsonrpc) \/ ~Truthy(inbound.method))
      \/ isNotification /\ ~Truthy(inbound.method)

\* start() without the branch that answers ping inline.
startPingDelivered(X, deliveryThrows) ==
  LET inbound == X.inbound
      method == inbound.method
      isNotification == inbound.id = "undefined"
  IN  IF inbound.t \notin {"object", "array"}
        THEN startCatch(X)
      ELSE IF method = "initialize"
        THEN Try(send(X, InitializeResponse(inbound)))
      ELSE IF method = "notifications/initialized"
        THEN notificationsInitialized(X)
      ELSE IF formatRejects(inbound)
        THEN Try(sendError(X, InvalidRequest, "null"))
      ELSE
        LET X1 == [X EXCEPT !.t.onmessageCalls =
                     @ + (IF inbound.t = "array" THEN inbound.n ELSE 1)]
        IN  IF deliveryThrows THEN startCatch(X1)
            ELSE [X1 EXCEPT !.awaits = ~X1.t.resolved]

\* start(), up to its return or to its await of responsePromise.
\* deliveryThrows: the onmessage callback throws.
start(X, deliveryThrows) ==
  LET inbound == X.inbound
      method == inbound.method
      isNotification == inbound.id = "undefined"
  IN  IF inbound.t \notin {"object", "array"}
        THEN startCatch(X)
      ELSE IF method = "initialize"
        THEN Try(send(X, InitializeResponse(inbound)))
      ELSE IF method = "notifications/initialized"
        THEN notificationsInitialized(X)
      ELSE IF method = "ping"
        THEN Try(send(X, RpcResult(inbound.id, PingResult)))
      ELSE IF formatRejects(inbound)
        THEN Try(sendError(X, InvalidRequest, "null"))
      ELSE
        LET X1 == [X EXCEPT !.t.onmessageCalls =
                     @ + (IF inbound.t = "array" THEN inbound.n ELSE 1)]
        IN  IF deliveryThrows THEN startCatch(X1)
            ELSE [X1 EXCEPT !.awaits = ~X1.t.resolved]

----------------------------------------------------------------------------
(* The tool registry and the handlers registered on the Session Engine.    *)

TOOL_HANDLERS ==
  [get_sector_by_name |-> "getSectorByName",
   list_sectors |-> "listSectors",
   list_countries |-> "listCountries",
   list_regions |-> "listRegions",
   get_report_types |-> "getReportTypes",
   get_reports_by_filters |-> "getReportsByFilters",
   get_malware_by_name |-> "getMalwareByName",
   get_campaigns_by_filters |-> "getCampaignsByFilters",
   get_indicators_by_object_and_type |-> "getIndicatorsByObjectAndType",
   get_stix_relationships_distribution |-> "getStixRelationshipsDistribution",
   get_stix_relationships_distribution_with_dynamic_filters |->
     "getStixRelationshipsDistributionWithDynamicFilters"]

\* The names of the tool descriptors of the catalog.
ALL_TOOLS ==
  {"get_sector_by_name", "list_sectors", "list_countries", "list_regions",
   "get_report_types", "get_reports_by_filters", "get_campaigns_by_filters",
   "get_malware_by_name", "get_indicators_by_object_and_type",
   "get_indicators_by_campaign", "get_stix_relationships_distribution",
   "get_stix_relationships_distribution_with_dynamic_filters"}

\* Tool names a client may call: the listed ones, the registered ones and
\* one that is neither.
CallableNames == ALL_TOOLS \cup DOMAIN TOOL_HANDLERS \cup {"nonexistent_tool"}

\* entities/malware.ts is not among the sources: the required list of
\* get_malware_by_name is the one of TOOL_DEFINITIONS, and the argument
\* getMalwareByName tests is the one of the RequestHandler that preceded
\* the entity modules.
MalwareRequired == {"search"}

MalwareCheckedArgs == {"search"}

\* inputSchema.required of the descriptor of a tool.
Required(toolName) ==
  CASE toolName = "get_sector_by_name" -> {"name"}
    [] toolName = "get_reports_by_filters" -> {"filters"}
    [] toolName = "get_campaigns_by_filters" -> {"filters"}
    [] toolName = "get_malware_by_name" -> MalwareRequired
    [] toolName = "get_indicators_by_object_and_type" ->
         {"objectId", "indicatorType"}
    [] toolName = "get_indicators_by_campaign" -> {"campaignId"}
    [] toolName = "get_stix_relationships_distribution" ->
         {"field", "operation"}
    [] toolName = "get_stix_relationships_distribution_with_dynamic_filters" ->
         {"field", "operation"}
    [] OTHER -> {}

\* The handlers with the test of the first required argument only.
CheckedArgsFirstOnly(handlerMethod) ==
  CASE handlerMethod = "getSectorByName" -> {"name"}
    [] handlerMethod = "getReportsByFilters" -> {"filters"}
    [] handlerMethod = "getCampaignsByFilters" -> {"filters"}
    [] handlerMethod = "getMalwareByName" -> MalwareCheckedArgs
    [] handlerMethod = "getIndicatorsByObjectAndType" -> {"objectId"}
    [] handlerMethod = "getStixRelationshipsDistribution" -> {"field"}
    [] handlerMethod = "getStixRelationshipsDistributionWithDynamicFilters" ->
         {"field"}
    [] OTHER -> {}

\* The arguments a handler method tests with `if (!args.x)` before it
\* queries OpenCTI.
CheckedArgs(handlerMethod) ==
  CASE handlerMethod = "getSectorByName" -> {"name"}
    [] handlerMethod = "getReportsByFilters" -> {"filters"}
    [] handlerMethod = "getCampaignsByFilters" -> {"filters"}
    [] handlerMethod = "getMalwareByName" -> MalwareCheckedArgs
    [] handlerMethod = "getIndicatorsByObjectAndType" ->
         {"objectId", "indicatorType"}
    [] handlerMethod = "getStixRelationshipsDistribution" ->
         {"field", "operation"}
    [] handlerMethod = "getStixRelationshipsDistributionWithDynamicFilters" ->
         {"field", "operation"}
    [] OTHER -> {}

\* The arguments a call of a tool may carry: those its descriptor requires
\* and those its handler tests.
ArgsOf(toolName) ==
  Required(toolName)
  \cup (IF toolName \in DOMAIN TOOL_HANDLERS
          THEN CheckedArgs(TOOL_HANDLERS[toolName]) ELSE {})

\* What the POST to /graphql does: "data" a response with data.data,
\* "nodata" a response without it, "axios" an axios error (HTTP status or
\* network failure), "other" any other exception.
Upstreams == {"data", "nodata", "axios", "other"}

\* The McpError instances the tool layer throws, by error code.
McpErrors ==
  {"McpError:InvalidParams", "McpError:InternalError",
   "McpError:MethodNotFound"}

\* A handler method reaches executeQuery, which posts to /graphql, when
\* every argument it tests is present.
SendsQuery(handlerMethod, provided) ==
  CheckedArgs(handlerMethod) \subseteq provided

\* A handler method of RequestHandler: "ok", or the error thrown.
InvokeHandler(handlerMethod, provided, upstream) ==
  IF ~SendsQuery(handlerMethod, provided) THEN "McpError:InvalidParams"
  ELSE CASE upstream = "data" -> "ok"
         [] upstream = "nodata" -> "McpError:InternalError"
         [] upstream = "axios" -> "AxiosError"
         [] OTHER -> "Error"

ToolResult(isError, text) ==
  [kind |-> "toolResult", isError |-> isError, text |-> text]

\* What a request handler hands back to the Session Engine.
Returned(r) == [threw |-> FALSE, result |-> r]

Thrown == [threw |-> TRUE, result |-> NoResult]

\* handleError that maps only axios errors and rethrows the rest.
handleErrorRethrow(error) ==
  IF error = "AxiosError" THEN Returned(ToolResult(TRUE, "OpenCTI API error"))
  ELSE Thrown

handleError(error) ==
  IF error = "AxiosError" THEN Returned(ToolResult(TRUE, "OpenCTI API error"))
  ELSE IF error \in McpErrors THEN Returned(ToolResult(TRUE, "MCP Error"))
  ELSE Returned(ToolResult(TRUE, "Unexpected error"))

\* The CallToolRequestSchema handler.
CallToolHandler(toolName, provided, upstream) ==
  IF toolName \notin DOMAIN TOOL_HANDLERS
    THEN handleError("McpError:MethodNotFound")
  ELSE LET o == InvokeHandler(TOOL_HANDLERS[toolName], provided, upstream)
       IN  IF o = "ok" THEN Returned(ToolResult(FALSE, "result"))
           ELSE handleError(o)

\* handleError of the stdio server: an axios error becomes a result, any
\* other error is thrown again.
handleErrorStdio(error) ==
  IF error = "AxiosError" THEN Returned(ToolResult(TRUE, "OpenCTI API error"))
  ELSE Thrown

\* The CallToolRequestSchema handler of the stdio server.
CallToolHandlerStdio(toolName, provided, upstream) ==
  IF toolName \notin DOMAIN TOOL_HANDLERS
    THEN handleErrorStdio("McpError:MethodNotFound")
  ELSE LET o == InvokeHandler(TOOL_HANDLERS[toolName], provided, upstream)
       IN  IF o = "ok" THEN Returned(ToolResult(FALSE, "result"))
           ELSE handleErrorStdio(o)

\* handleError of the SSE server.
handleErrorSse(error) ==
  IF error = "AxiosError" THEN Returned(ToolResult(TRUE, "OpenCTI API error"))
  ELSE Thrown

\* The CallToolRequestSchema handler of the SSE server.
CallToolHandlerSse(toolName, provided, upstream) ==
  IF toolName \notin DOMAIN TOOL_HANDLERS
    THEN handleErrorSse("McpError:MethodNotFound")
  ELSE LET o == InvokeHandler(TOOL_HANDLERS[toolName], provided, upstream)
       IN  IF o = "ok" THEN Returned(ToolResult(FALSE, "result"))
           ELSE handleErrorSse(o)

\* The descriptor of a tool: its name, a description and an inputSchema
\* with the required list.
Descriptor(toolName) ==
  [name |-> toolName, description |-> "text",
   inputSchema |-> [type |-> "object", required |-> Required(toolName)]]

\* A tools/list handler whose catalog is lost once a tool call has failed.
ListToolsHandlerDegraded ==
  Returned([kind |-> "tools",
            tools |-> IF "tools/call:error" \in served THEN {}
                      ELSE {Descriptor(n) : n \in ALL_TOOLS}])

\* The ListToolsRequestSchema handler: the catalog.
ListToolsHandler ==
  Returned([kind |-> "tools", tools |-> {Descriptor(n) : n \in ALL_TOOLS}])

----------------------------------------------------------------------------
(* The server: one HTTP connection per request.                            *)

\* No request on the connection, or one whose verb, path and header play
\* no part because no MCP_AUTH_TOKEN is configured.
NoRequest ==
  [stage |-> "none", verb |-> "POST", path |-> "/mcp",
   authorization |-> "undefined"]

\* The tools/call the Session Engine ran for a request: the tool name and
\* the arguments provided, the error the handler method threw ("none" when
\* it returned), whether it posted a query to OpenCTI, and what the
\* CallTool handler handed back.
NoTool ==
  [ran |-> FALSE, failed |-> FALSE, out |-> Thrown, name |-> "none",
   provided |-> {}, error |-> "none", queried |-> FALSE]

NewEngine == [called |-> FALSE, handled |-> FALSE, tool |-> NoTool]

Init ==
  /\ req = [c \in Conns |-> [pc |-> "idle", raw |-> "none",
                             inbound |-> UndefinedBody]]
  /\ res = [c \in Conns |-> NewResponse]
  /\ transport = [c \in Conns |-> NewTransport]
  /\ engine = [c \in Conns |-> NewEngine]
  /\ served = {}
  /\ connected = "none"
  /\ http = [token |-> "undefined", request |-> [c \in Conns |-> NoRequest]]

\* The adapter state of connection c, for the operators above.
Adapter(c) ==
  [inbound |-> req[c].inbound, res |-> res[c], t |-> transport[c],
   threw |-> FALSE, awaits |-> FALSE]

\* express.json({limit}): the values req.body can take for a posted body,
\* or {} when the middleware passes an error to the error handler.
ExpressJson(raw) ==
  CASE raw = "none" -> {UndefinedBody, EmptyObject}
    [] raw = "array" -> {ArrayBody(n) : n \in 0..MaxBatch}
    [] raw = "object" ->
         {Body("object", j, i, m, 0) :
            j \in JsonrpcValues, i \in IdValues, m \in MethodValues}
    [] OTHER -> {}

\* The pre-checks without the test of the jsonrpc field.
PreCheckNoVersion(inbound) ==
  IF inbound.t = "undefined" THEN RpcError("null", ParseError)
  ELSE IF ~Truthy(inbound.method)
    THEN RpcError(OrNull(inbound.id), InvalidRequest)
  ELSE NoBody

\* The pre-checks of the route: the 400 body, or NoBody when they pass.
PreCheck(inbound) ==
  IF inbound.t = "undefined" THEN RpcError("null", ParseError)
  ELSE IF ~Truthy(inbound.jsonrpc) \/ inbound.jsonrpc # "2.0"
    THEN RpcError(OrNull(inbound.id), InvalidRequest)
  ELSE IF ~Truthy(inbound.method)
    THEN RpcError(OrNull(inbound.id), InvalidRequest)
  ELSE NoBody

\* A body the JSON middleware rejects: the Express error handler answers.
PostUnparsed(c) ==
  /\ req[c].pc = "idle"
  /\ \E raw \in RawKinds :
       /\ ExpressJson(raw) = {}
       /\ req' = [req EXCEPT ![c] = [pc |-> "returned", raw |-> raw,
                                     inbound |-> UndefinedBody]]
       /\ res' = [res EXCEPT ![c] =
                    IF res[c].headersSent THEN res[c]
                    ELSE resJson(res[c], 500, PlainError, "express").res]
  /\ UNCHANGED <<transport, engine, served, connected, http>>

\* POST /mcp with a body the pre-checks reject: 400.
PostRejected(c) ==
  /\ req[c].pc = "idle"
  /\ \E raw \in RawKinds : \E inbound \in ExpressJson(raw) :
       /\ PreCheck(inbound) # NoBody
       /\ req' = [req EXCEPT ![c] = [pc |-> "returned", raw |-> raw,
                                     inbound |-> inbound]]
       /\ res' = [res EXCEPT ![c] =
                    resJson(res[c], 400, PreCheck(inbound), "precheck").res]
  /\ UNCHANGED <<transport, engine, served, connected, http>>

\* POST /mcp with a body that passes: construct the transport, connect it
\* to the shared Server, which calls start(); the route handler returns when
\* start() does, and answers 500 itself when start() throws.
PostAccepted(c) ==
  /\ req[c].pc = "idle"
  /\ \E deliveryThrows \in BOOLEAN :
     \E raw \in RawKinds : \E inbound \in ExpressJson(raw) :
       /\ PreCheck(inbound) = NoBody
       /\ LET X == start(Construct(inbound, res[c]), deliveryThrows)
          IN  /\ req' = [req EXCEPT ![c] =
                           [pc |-> IF X.awaits THEN "awaiting" ELSE "returned",
                            raw |-> raw, inbound |-> inbound]]
              /\ transport' = [transport EXCEPT ![c] = X.t]
              /\ res' = [res EXCEPT ![c] =
                           IF X.threw /\ ~X.res.headersSent
                             THEN resJson(X.res, 500,
                                          RpcError("null", InternalError),
                                          "route").res
                             ELSE X.res]
  /\ connected' = c
  /\ UNCHANGED <<engine, served, http>>

\* start() returning without waiting for responsePromise.
ResumeEarly(c) ==
  /\ req[c].pc = "awaiting"
  /\ req' = [req EXCEPT ![c].pc = "returned"]
  /\ UNCHANGED <<res, transport, engine, served, connected, http>>

\* start() giving up after a delay: it answers with an error by itself.
ResumeOnTimeout(c) ==
  /\ req[c].pc = "awaiting"
  /\ LET X == sendError(Adapter(c), InternalError, "null")
     IN  /\ transport' = [transport EXCEPT ![c] = X.t]
         /\ res' = [res EXCEPT ![c] = X.res]
  /\ req' = [req EXCEPT ![c].pc = "returned"]
  /\ UNCHANGED <<engine, served, connected, http>>

\* responsePromise is resolved: start() resumes and the route handler returns.
Resume(c) ==
  /\ req[c].pc = "awaiting"
  /\ transport[c].resolved
  /\ req' = [req EXCEPT ![c].pc = "returned"]
  /\ UNCHANGED <<res, transport, engine, served, connected, http>>

\* The effect of a call the Session Engine makes on the adapter.
EngineCall(c, X) ==
  /\ transport' = [transport EXCEPT ![c] = X.t]
  /\ res' = [res EXCEPT ![c] = X.res]
  /\ UNCHANGED <<req, served, connected, http>>

\* The messages the Session Engine may pass to send() for connection c: a
\* response to the request, a bare value (serialisable or not), a
\* notification or a request of its own.
EngineMessages(c) ==
  LET id == req[c].inbound.id
  IN  (IF id = "undefined" THEN {}
       ELSE {RpcResult(id, [kind |-> "value"])})
      \cup {Message("bare", "undefined", 0, [kind |-> "value"], ser) :
              ser \in BOOLEAN}
      \cup {Message("call", id2, 0, NoResult, TRUE) :
              id2 \in {"undefined", "s:srv"}}

\* The Session Engine calls transport.send(message).
EngineSend(c) ==
  /\ transport[c].exists
  /\ \E message \in EngineMessages(c) :
       EngineCall(c, send(Adapter(c), message))
  /\ engine' = [engine EXCEPT ![c].called = TRUE]

\* The Session Engine calls transport.close().
EngineClose(c) ==
  /\ transport[c].exists
  /\ transport[c].oncloseCalls < MaxClose
  /\ EngineCall(c, close(Adapter(c)))
  /\ engine' = [engine EXCEPT ![c].called = TRUE]

\* A Session Engine that answers with an error until an initialize request
\* has been received by the process.
RespondIfInitialized(c, out) ==
  EngineCall(c, send(Adapter(c),
                     IF out.threw \/ "initialize" \notin served
                       THEN RpcError(req[c].inbound.id, InternalError)
                       ELSE RpcResult(req[c].inbound.id, out.result)))

\* A request handler has run: the Session Engine sends its result as the
\* response to the request, or a JSON-RPC error when the handler threw.
Respond(c, out) ==
  EngineCall(c, send(Adapter(c),
                     IF out.threw
                       THEN RpcError(req[c].inbound.id, InternalError)
                       ELSE RpcResult(req[c].inbound.id, out.result)))

\* The delivered message is a request for `method` no handler has run for.
Dispatches(c, method) ==
  /\ transport[c].onmessageCalls > 0
  /\ req[c].inbound.method = method
  /\ req[c].inbound.id # "undefined"
  /\ ~engine[c].handled

\* The Session Engine runs the tools/list handler.
ToolsList(c) ==
  /\ Dispatches(c, "tools/list")
  /\ Respond(c, ListToolsHandler)
  /\ engine' = [engine EXCEPT ![c].called = TRUE, ![c].handled = TRUE]

\* The Session Engine runs the tools/call handler.
ToolsCall(c) ==
  /\ Dispatches(c, "tools/call")
  /\ \E toolName \in CallableNames, upstream \in Upstreams :
     \E provided \in SUBSET ArgsOf(toolName) :
       LET out == CallToolHandler(toolName, provided, upstream)
           registered == toolName \in DOMAIN TOOL_HANDLERS
           error == IF ~registered THEN "McpError:MethodNotFound"
                    ELSE InvokeHandler(TOOL_HANDLERS[toolName], provided,
                                       upstream)
           queried == registered
                      /\ SendsQuery(TOOL_HANDLERS[toolName], provided)
       IN  /\ Respond(c, out)
           /\ engine' = [engine EXCEPT
                ![c].called = TRUE, ![c].handled = TRUE,
                ![c].tool = [ran |-> TRUE, failed |-> error # "ok",
                             out |-> out, name |-> toolName,
                             provided |-> provided,
                             error |-> IF error = "ok" THEN "none" ELSE error,
                             queried |-> queried]]

\* What the process keeps of the request of connection c once it is over:
\* that a handshake message was received, that a tool call succeeded or
\* failed.  The Server, the RequestHandler and the Express app outlive the
\* request.
Completed(c) ==
  (IF transport[c].exists
      /\ req[c].inbound.method \in {"initialize", "notifications/initialized"}
     THEN {req[c].inbound.method} ELSE {})
  \cup (IF engine[c].tool.ran
          THEN {IF engine[c].tool.failed THEN "tools/call:error"
                ELSE "tools/call:ok"}
          ELSE {})

\* The request is over: its message, response and transport are discarded,
\* and the next request on the connection gets new ones.
Discard(c) ==
  /\ req[c].pc = "returned"
  /\ req' = [req EXCEPT ![c] = [pc |-> "idle", raw |-> "none",
                                inbound |-> UndefinedBody]]
  /\ res' = [res EXCEPT ![c] = NewResponse]
  /\ transport' = [transport EXCEPT ![c] = NewTransport]
  /\ engine' = [engine EXCEPT ![c] = NewEngine]
  /\ served' = served \cup Completed(c)
  /\ http' = [http EXCEPT !.request[c] = NoRequest]
  /\ UNCHANGED connected

Next ==
  \E c \in Conns :
    \/ Discard(c)
    \/ PostUnparsed(c)
    \/ PostRejected(c)
    \/ PostAccepted(c)
    \/ Resume(c)
    \/ EngineSend(c)
    \/ EngineClose(c)
    \/ ToolsList(c)
    \/ ToolsCall(c)

Spec == Init /\ [][Next]_vars

\* The Session Engine eventually calls send() or close() on an adapter it
\* was given a message through, and a resolved responsePromise eventually
\* resumes the start() that awaits it.
EngineAnswers(c) ==
  EngineSend(c) \/ EngineClose(c) \/ ToolsList(c) \/ ToolsCall(c)

SpecLive ==
  /\ Init /\ [][Next]_vars
  /\ \A c \in Conns : WF_vars(EngineAnswers(c)) /\ WF_vars(Resume(c))

----------------------------------------------------------------------------
(* The adapter on its own: start() applied to any message, also to those    *)
(* the pre-checks of the route reject.                                      *)

\* The messages an adapter may be constructed with: null, arrays and
\* objects.
AdapterInbounds ==
  {UndefinedBody} \cup ExpressJson("array") \cup ExpressJson("object")

\* new HttpOnceTransport(inbound, res) connected to the Server, which calls
\* start(); the caller answers 500 when start() throws.
StartAdapter(c) ==
  /\ req[c].pc = "idle"
  /\ \E deliveryThrows \in BOOLEAN : \E inbound \in AdapterInbounds :
       LET X == start(Construct(inbound, res[c]), deliveryThrows)
       IN  /\ req' = [req EXCEPT ![c] =
                        [pc |-> IF X.awaits THEN "awaiting" ELSE "returned",
                         raw |-> inbound.t, inbound |-> inbound]]
           /\ transport' = [transport EXCEPT ![c] = X.t]
           /\ res' = [res EXCEPT ![c] =
                        IF X.threw /\ ~X.res.headersSent
                          THEN resJson(X.res, 500,
                                       RpcError("null", InternalError),
                                       "route").res
                          ELSE X.res]
  /\ connected' = c
  /\ UNCHANGED <<engine, served, http>>

NextAdapter ==
  \E c \in Conns :
    \/ Discard(c)
    \/ PostUnparsed(c)
    \/ PostRejected(c)
    \/ StartAdapter(c)
    \/ Resume(c)
    \/ EngineSend(c)
    \/ EngineClose(c)

SpecAdapter == Init /\ [][NextAdapter]_vars

----------------------------------------------------------------------------
(* The middleware in front of the routes: cors, express.json, the bearer    *)
(* token check installed when MCP_AUTH_TOKEN is set, then the routes.       *)

\* JSON-RPC error codes of the authentication middleware.
MissingAuthorization == -32001
InvalidToken == -32002

Verbs == {"POST", "GET", "OPTIONS"}

Paths == {"/health", "/mcp", "/other"}

\* The Authorization header: absent, not starting with 'Bearer ', a bearer
\* token that is not MCP_AUTH_TOKEN, the bearer token MCP_AUTH_TOKEN.
Authorizations == {"undefined", "Basic x", "Bearer wrong", "Bearer secret"}

InitAuth ==
  /\ req = [c \in Conns |-> [pc |-> "idle", raw |-> "none",
                             inbound |-> UndefinedBody]]
  /\ res = [c \in Conns |-> NewResponse]
  /\ transport = [c \in Conns |-> NewTransport]
  /\ engine = [c \in Conns |-> NewEngine]
  /\ served = {}
  /\ connected = "none"
  /\ \E token \in {"undefined", "secret"} :
       http = [token |-> token, request |-> [c \in Conns |-> NoRequest]]

\* The authentication middleware: 0 when it calls next(), or the status
\* it answers with.
AuthMiddleware(token, path, authorization) ==
  IF token = "undefined" THEN 0
  ELSE IF path = "/health" THEN 0
  ELSE IF authorization \in {"undefined", "Basic x"} THEN 401
  ELSE IF authorization # "Bearer " \o token THEN 403
  ELSE 0

\* A request arrives on connection c.
Receive(c) ==
  /\ req[c].pc = "idle"
  /\ http.request[c].stage = "none"
  /\ \E verb \in Verbs, path \in Paths, authorization \in Authorizations :
       http' = [http EXCEPT !.request[c] =
                  [stage |-> "received", verb |-> verb, path |-> path,
                   authorization |-> authorization]]
  /\ UNCHANGED <<req, res, transport, engine, served, connected>>

\* The request is over without having reached the /mcp route.
Answered(c, r) ==
  /\ res' = [res EXCEPT ![c] = r]
  /\ req' = [req EXCEPT ![c].pc = "returned"]
  /\ http' = [http EXCEPT !.request[c].stage = "answered"]
  /\ UNCHANGED <<transport, engine, served, connected>>

\* cors answers an OPTIONS request itself.
Preflight(c) ==
  /\ req[c].pc = "idle"
  /\ http.request[c].stage = "received"
  /\ http.request[c].verb = "OPTIONS"
  /\ Answered(c, resEnd(res[c], 204, "cors"))

\* express.json fails on the body of a POST: the Express error handler
\* answers, and no later middleware runs.
ParseFails(c) ==
  /\ http.request[c].stage = "received"
  /\ http.request[c].verb = "POST"
  /\ PostUnparsed(c)

\* The authentication middleware answers 401 or 403.
AuthRejects(c) ==
  /\ req[c].pc = "idle"
  /\ http.request[c].stage = "received"
  /\ http.request[c].verb # "OPTIONS"
  /\ LET r == http.request[c]
         status == AuthMiddleware(http.token, r.path, r.authorization)
     IN  /\ status # 0
         /\ Answered(c, resJson(res[c], status,
                                RpcError("null",
                                         IF status = 401
                                           THEN MissingAuthorization
                                           ELSE InvalidToken),
                                "auth").res)

\* The authentication middleware calls next(), or is not installed.
AuthPasses(c) ==
  /\ req[c].pc = "idle"
  /\ http.request[c].stage = "received"
  /\ http.request[c].verb # "OPTIONS"
  /\ AuthMiddleware(http.token, http.request[c].path,
                    http.request[c].authorization) = 0
  /\ http' = [http EXCEPT !.request[c].stage = "passed"]
  /\ UNCHANGED <<req, res, transport, engine, served, connected>>

\* GET /health.
Health(c) ==
  /\ req[c].pc = "idle"
  /\ http.request[c].stage = "passed"
  /\ http.request[c].verb = "GET" /\ http.request[c].path = "/health"
  /\ Answered(c, resJson(res[c], 200, PlainError, "health").res)

\* POST /mcp.
McpRoute(c) ==
  /\ http.request[c].stage = "passed"
  /\ http.request[c].verb = "POST" /\ http.request[c].path = "/mcp"
  /\ (PostRejected(c) \/ PostAccepted(c))

\* No route matches: the 404 handler.
NotFound(c) ==
  /\ req[c].pc = "idle"
  /\ http.request[c].stage = "passed"
  /\ ~(http.request[c].verb = "GET" /\ http.request[c].path = "/health")
  /\ ~(http.request[c].verb = "POST" /\ http.request[c].path = "/mcp")
  /\ Answered(c, resJson(res[c], 404, PlainError, "notfound").res)

NextAuth ==
  \E c \in Conns :
    \/ Receive(c)
    \/ Preflight(c)
    \/ ParseFails(c)
    \/ AuthRejects(c)
    \/ AuthPasses(c)
    \/ Health(c)
    \/ McpRoute(c)
    \/ NotFound(c)
    \/ Resume(c)
    \/ EngineSend(c)
    \/ EngineClose(c)
    \/ ToolsCall(c)
    \/ Discard(c)

SpecAuth == InitAuth /\ [][NextAuth]_vars

----------------------------------------------------------------------------
(* Two requests in flight on the shared Server.                            *)

Conns2 == {"c1", "c2"}

\* The id of the request each connection posts.
RequestId(c) == IF c = "c1" THEN "s:1" ELSE "n:0"

InitConcurrent ==
  /\ req = [c \in Conns2 |-> [pc |-> "idle", raw |-> "none",
                              inbound |-> UndefinedBody]]
  /\ res = [c \in Conns2 |-> NewResponse]
  /\ transport = [c \in Conns2 |-> NewTransport]
  /\ engine = [c \in Conns2 |-> NewEngine]
  /\ served = {}
  /\ connected = "none"
  /\ http = [token |-> "undefined", request |-> [c \in Conns2 |-> NoRequest]]

\* POST /mcp with a tools/list request, which start() forwards.
PostForwarded(c) ==
  /\ PostAccepted(c)
  /\ req'[c].inbound = Body("object", "2.0", RequestId(c), "tools/list", 0)
  /\ req'[c].pc = "awaiting"

\* The tools/list handler has run for the request of connection c and the
\* Server sends the response through the adapter of connection d: the one
\* that delivered the request, or the one the Server is connected to when
\* the handler finishes (the MCP SDK does either, depending on its version).
EngineRespondsVia(c, d) ==
  /\ Dispatches(c, "tools/list")
  /\ d \in {c, connected}
  /\ transport[d].exists
  /\ EngineCall(d, send(Adapter(d),
                        RpcResult(req[c].inbound.id, ListToolsHandler.result)))
  /\ engine' = [engine EXCEPT ![c].handled = TRUE, ![d].called = TRUE]

NextConcurrent ==
  \E c \in Conns2 :
    \/ PostForwarded(c)
    \/ \E d \in Conns2 : EngineRespondsVia(c, d)
    \/ EngineClose(c)
    \/ Resume(c)
    \/ Discard(c)

SpecConcurrent == InitConcurrent /\ [][NextConcurrent]_vars

----------------------------------------------------------------------------
(* Properties.                                                             *)

\* The request of connection c passed the pre-checks and has its adapter.
Accepted(c) == transport[c].exists

\* The methods start() answers itself.
Handshake == {"initialize", "notifications/initialized", "ping"}

\* A JSON string (the tokens that are not undefined, null or a number).
IsString(v) == v \notin {"undefined", "null", "n:0", "n:5"}

C2_IdEchoed ==
  \A c \in Conns :
    (/\ req[c].inbound.id # "undefined"
     /\ res[c].body.shape \in {"result", "error"})
      => res[c].body.id = req[c].inbound.id

\* C3: a message without an id that passes the pre-checks is answered with
\* status 204 and an empty body, whatever its method.
C3_NotificationNoContent ==
  \A c \in Conns :
    (/\ Accepted(c)
     /\ req[c].inbound.id = "undefined"
     /\ res[c].headersSent)
      => (res[c].status = 204 /\ res[c].body = EmptyBody)

\* C4: the completion signal of an adapter fires exactly once: it has fired
\* once a response path has run, and it is never fired a second time.
C4_FiresExactlyOnce ==
  \A c \in Conns :
    Accepted(c) =>
      /\ transport[c].resolveCalls <= 1
      /\ (transport[c].responded \/ res[c].headersSent)
           => transport[c].resolveCalls = 1

\* C5: a malformed envelope (no jsonrpc field, a wrong jsonrpc value, no
\* method) is answered with HTTP 400 and a JSON-RPC error whose code is set,
\* and no adapter is constructed for it.
C5_MalformedEnvelope400 ==
  \A c \in Conns :
    (/\ req[c].pc # "idle"
     /\ req[c].inbound.t = "object"
     /\ (req[c].inbound.jsonrpc # "2.0" \/ ~Truthy(req[c].inbound.method)))
      => /\ res[c].status = 400
         /\ res[c].body.shape = "error"
         /\ res[c].body.code # 0
         /\ ~Accepted(c)
         /\ req[c].pc = "returned"

C5_Witness ==
  \E c \in Conns :
    /\ req[c].pc = "returned"
    /\ req[c].inbound.t = "object"
    /\ req[c].inbound.jsonrpc = "1.0"
    /\ req[c].inbound.method = "initialize"
    /\ res[c].status = 400

\* C6: a body whose jsonrpc field is missing or not "2.0", or whose method
\* is missing or not a string, is answered with code -32600 and reaches
\* neither an adapter nor the Session Engine.
C6_InvalidRequestRejected ==
  \A c \in Conns :
    (/\ req[c].pc # "idle"
     /\ req[c].inbound.t \in {"object", "array"}
     /\ (req[c].inbound.jsonrpc # "2.0" \/ ~IsString(req[c].inbound.method)))
      => /\ ~Accepted(c)
         /\ transport[c].onmessageCalls = 0
         /\ res[c].body.shape = "error"
         /\ res[c].body.code = InvalidRequest

\* C7: a POST whose body is empty, is not an object or is not parseable
\* JSON is answered with a JSON-RPC error of code -32700, and no adapter is
\* constructed.
C7_ParseErrorRejected ==
  \A c \in Conns :
    (/\ req[c].pc # "idle"
     /\ req[c].raw \in {"none", "malformed", "primitive"})
      => /\ ~Accepted(c)
         /\ res[c].body.shape = "error"
         /\ res[c].body.code = ParseError

\* The response of connection c is the tools/call handler's result.
ToolAnswered(c) ==
  /\ engine[c].tool.ran
  /\ res[c].by = "direct"
  /\ res[c].body.shape = "result"
  /\ res[c].body.result = engine[c].tool.out.result

\* C8: the tools/call handler never throws: an unknown tool, a missing
\* argument, an upstream failure or any other exception gives a returned
\* result with isError true, which the client receives under HTTP 200 as a
\* JSON-RPC result, never as a JSON-RPC error.
C8_ToolErrorsAreResults ==
  \A c \in Conns :
    engine[c].tool.ran =>
      /\ ~engine[c].tool.out.threw
      /\ engine[c].tool.failed <=> engine[c].tool.out.result.isError
      /\ ~(res[c].by = "direct" /\ res[c].body.shape = "error")
      /\ ToolAnswered(c) => res[c].status = 200

C8_Witness ==
  \E c \in Conns :
    /\ ToolAnswered(c)
    /\ engine[c].tool.failed
    /\ res[c].body.result.text = "MCP Error"
    /\ res[c].status = 200

\* start() answered the message of connection c by itself.
AnsweredInline(c) ==
  /\ transport[c].responded
  /\ res[c].by \in {"direct", "wrapped", "notification"}
  /\ transport[c].onmessageCalls = 0
  /\ ~engine[c].handled

\* C9 as stated: a handshake method is answered inline and never delivered
\* to onmessage; for any other method the adapter writes nothing itself
\* before the Session Engine calls send() or close().
C9_InlineXorForwarded ==
  \A c \in Conns :
    Accepted(c) =>
      IF req[c].inbound.method \in Handshake
        THEN AnsweredInline(c)
        ELSE ~engine[c].called => ~res[c].headersSent

\* C9 as amended: a handshake method is answered inline and never delivered
\* to onmessage; for any other method the adapter writes nothing itself
\* before the Session Engine calls send() or close(), except the Internal
\* Error (-32603) response start() writes when delivering the message to
\* onmessage throws.
C9_InlineXorForwardedOrError ==
  \A c \in Conns :
    Accepted(c) =>
      IF req[c].inbound.method \in Handshake
        THEN AnsweredInline(c)
        ELSE (~engine[c].called /\ res[c].headersSent)
               => /\ res[c].by = "sendError"
                  /\ res[c].body =
                       RpcError(OrNull(req[c].inbound.id), InternalError)
                  /\ transport[c].onmessageCalls = 1
                  /\ transport[c].onerrorCalls = 1

C9_Witness ==
  \E c \in Conns :
    /\ Accepted(c)
    /\ req[c].inbound.method = "tools/call"
    /\ req[c].pc = "awaiting"
    /\ transport[c].onmessageCalls = 1
    /\ ~engine[c].called
    /\ ~res[c].headersSent

\* C10: an initialize request with id X is answered with HTTP 200, id X, a
\* non-empty protocolVersion and capabilities.tools.listChanged false.
C10_InitializeResult ==
  \A c \in Conns :
    (/\ Accepted(c)
     /\ req[c].inbound.method = "initialize"
     /\ req[c].inbound.id # "undefined")
      => /\ res[c].status = 200
         /\ res[c].body.shape = "result"
         /\ res[c].body.id = req[c].inbound.id
         /\ res[c].body.result.kind = "initialize"
         /\ res[c].body.result.protocolVersion # ""
         /\ res[c].body.result.listChanged = FALSE

C10_Witness ==
  \E c \in Conns :
    /\ Accepted(c)
    /\ req[c].inbound.method = "initialize"
    /\ req[c].inbound.id = "n:0"
    /\ engine[c].called
    /\ res[c].status = 200

\* C11: a notifications/initialized message is answered with status 204 and
\* an empty body written by start() itself and not by send(); the adapter is
\* responded, the completion signal is resolved, and the message is not
\* delivered to the Session Engine.
C11_NotificationsInitialized ==
  \A c \in Conns :
    (Accepted(c) /\ req[c].inbound.method = "notifications/initialized")
      => /\ res[c].status = 204
         /\ res[c].body = EmptyBody
         /\ res[c].by = "notification"
         /\ res[c].writes = 1
         /\ transport[c].responded
         /\ transport[c].resolved
         /\ transport[c].resolveCalls = 1
         /\ transport[c].onmessageCalls = 0
         /\ ~engine[c].handled
         /\ req[c].pc = "returned"

C11_Witness ==
  \E c \in Conns :
    /\ Accepted(c)
    /\ req[c].inbound.method = "notifications/initialized"
    /\ req[c].inbound.id = "undefined"
    /\ res[c].status = 204
    /\ transport[c].resolved

\* The id an error response carries for the request of connection c: the
\* request's id, or null when the request has none.
BestEffortId(c) ==
  IF req[c].inbound.id = "undefined" THEN "null" ELSE req[c].inbound.id

\* C12: when start() throws, the exception is passed to the error callback,
\* an Internal Error response (code -32603) carrying the request's id, or
\* null when it has none, is written, the completion signal fires, and
\* start() itself does not fail.
C12_StartFailureAnswered ==
  \A c \in Conns :
    (Accepted(c) /\ transport[c].onerrorCalls > 0)
      => /\ res[c].by = "sendError"
         /\ res[c].body = RpcError(BestEffortId(c), InternalError)
         /\ transport[c].resolved
         /\ req[c].pc = "returned"

\* C13: every HTTP response is a 2xx or 4xx status with a JSON-RPC-shaped
\* body (result or error) or a 204 with an empty body; a 500 is produced
\* only when the response object failed to serialise.
C13_JsonRpcShapedResponses ==
  \A c \in Conns :
    res[c].headersSent =>
      \/ res[c].status = 204 /\ res[c].body = EmptyBody
      \/ /\ res[c].status \in (200..299) \cup (400..499)
         /\ res[c].status # 204
         /\ res[c].body.shape \in {"result", "error"}
      \/ res[c].status = 500 /\ res[c].by = "fallback"

\* C14: for a message that passes the pre-checks the route constructs one
\* adapter and starts it, and returns only after the adapter's completion
\* signal has fired, so the response has been written when the handler
\* returns; until then the handler is suspended in start().
C14_ReturnAfterCompletion ==
  \A c \in Conns :
    Accepted(c) =>
      /\ req[c].pc \in {"awaiting", "returned"}
      /\ req[c].pc = "returned"
           => /\ transport[c].resolved
              /\ res[c].headersSent
              /\ res[c].writes = 1
      /\ (req[c].pc = "awaiting" /\ ~transport[c].resolved)
           => ~res[c].headersSent

C14_Witness ==
  \E c \in Conns :
    /\ Accepted(c)
    /\ req[c].inbound.method = "tools/list"
    /\ engine[c].handled
    /\ req[c].pc = "returned"
    /\ transport[c].resolved
    /\ res[c].status = 200

\* The adapter of connection c has written nothing and is not responded.
Unanswered(c) == ~transport[c].responded /\ ~res[c].headersSent

\* C15: no cross-request state is retained: whatever requests the process
\* completed before (an initialize, a notifications/initialized, tool calls
\* or none), the response to a request is determined by its message: the
\* inline results of initialize and ping, the catalog for tools/list, and
\* for tools/call the result the handler computed from the call's name,
\* arguments and the upstream service.
C15_NoCrossRequestState ==
  [][\A c \in Conns :
       /\ (PostAccepted(c) /\ req'[c].inbound.id # "undefined"
              /\ req'[c].inbound.method \in {"initialize", "ping"})
            => /\ res'[c].status = 200
               /\ res'[c].body =
                    (IF req'[c].inbound.method = "initialize"
                       THEN InitializeResponse(req'[c].inbound)
                       ELSE RpcResult(req'[c].inbound.id, PingResult))
       /\ (ToolsList(c) /\ Unanswered(c))
            => /\ res'[c].status = 200
               /\ res'[c].body =
                    RpcResult(req[c].inbound.id, ListToolsHandler.result)
       /\ (ToolsCall(c) /\ Unanswered(c))
            => /\ res'[c].status = 200
               /\ ~engine'[c].tool.out.threw
               /\ res'[c].body =
                    RpcResult(req[c].inbound.id, engine'[c].tool.out.result)
    ]_vars

C15_Witness ==
  \E c \in Conns :
    /\ served \cap {"initialize", "notifications/initialized"} = {}
    /\ served # {}
    /\ req[c].inbound.method = "tools/list"
    /\ engine[c].handled
    /\ res[c].status = 200
    /\ res[c].body = RpcResult(req[c].inbound.id, ListToolsHandler.result)

\* C16: close() on an adapter that has not responded and whose response has
\* sent nothing writes 204 with no body and resolves the completion signal;
\* close() on an adapter that has responded leaves the response as it is;
\* in both cases the onclose callback is invoked.
C16_CloseFrame ==
  [][\A c \in Conns :
       EngineClose(c) =>
         /\ Unanswered(c)
              => /\ res'[c].status = 204
                 /\ res'[c].body = EmptyBody
                 /\ res'[c].writes = 1
                 /\ transport'[c].resolved
         /\ transport[c].responded
              => /\ res'[c] = res[c]
                 /\ transport'[c].resolveCalls = transport[c].resolveCalls
         /\ transport'[c].oncloseCalls = transport[c].oncloseCalls + 1
    ]_vars

C16_Witness ==
  \E c \in Conns :
    /\ Accepted(c)
    /\ res[c].by = "close"
    /\ res[c].status = 204
    /\ res[c].body = EmptyBody
    /\ transport[c].resolved
    /\ transport[c].oncloseCalls = 1

C18_StaticCatalog ==
  [][\A c \in Conns :
       (ToolsList(c) /\ Unanswered(c))
         => /\ res'[c].status = 200
            /\ res'[c].body.shape = "result"
            /\ res'[c].body.id = req[c].inbound.id
            /\ res'[c].body.result.kind = "tools"
            /\ res'[c].body.result.tools # {}
            /\ {d.name : d \in res'[c].body.result.tools} = ALL_TOOLS
            /\ Cardinality(res'[c].body.result.tools) = Cardinality(ALL_TOOLS)
            /\ \A d \in res'[c].body.result.tools :
                  /\ d.description # ""
                  /\ d.inputSchema.type = "object"
    ]_vars

C18_Witness ==
  \E c \in Conns :
    /\ {"tools/call:ok", "tools/call:error"} \subseteq served
    /\ req[c].inbound.method = "tools/list"
    /\ engine[c].handled
    /\ res[c].status = 200
    /\ res[c].by = "direct"
    /\ res[c].body.result = ListToolsHandler.result

\* C19: Closed is terminal: once close() has written the 204 on an adapter
\* that had not responded, a later send() or sendError() on that adapter
\* attempts no write on the response and does not fire the completion
\* signal again.
C19_ClosedIsTerminal ==
  [][\A c \in Conns :
       (res[c].by = "close" /\ transport'[c].exists)
         => /\ res'[c] = res[c]
            /\ transport'[c].resolveCalls = transport[c].resolveCalls
    ]_vars

\* C20: send() on an adapter that has not responded writes a complete
\* response unchanged and wraps any other message as
\* {jsonrpc: "2.0", id: <the request's id>, result: message}; the responses
\* start() builds for initialize and ping are written as built, never
\* wrapped.
C20_SendVerbatimOrWrapped ==
  \A c \in Conns :
    Accepted(c) =>
      /\ (res[c].by = "wrapped" /\ req[c].inbound.id # "undefined")
           => res[c].body.id = req[c].inbound.id
      /\ (req[c].inbound.method \in {"initialize", "ping"}
             /\ res[c].headersSent)
           => /\ res[c].by = "direct"
              /\ res[c].body.result \in {InitializeResult, PingResult}

\* C21: when the Session Engine eventually calls send() or close() for every
\* message delivered to it, every message start() forwarded eventually has
\* its completion signal fired and its HTTP request completed.
C21_ForwardedCompletes ==
  \A c \in Conns :
    (req[c].pc = "awaiting")
      ~> (req[c].pc = "returned" /\ transport[c].resolved
          /\ res[c].headersSent)

C21_Witness ==
  \E c \in Conns :
    /\ req[c].pc = "returned"
    /\ transport[c].onmessageCalls = 1
    /\ engine[c].called
    /\ transport[c].resolved
    /\ res[c].headersSent

C23_StartRevalidates ==
  \A c \in Conns :
    (/\ Accepted(c)
     /\ req[c].inbound.t = "object"
     /\ (req[c].inbound.jsonrpc = "undefined"
           \/ req[c].inbound.method = "undefined"))
      => /\ transport[c].onmessageCalls = 0
         /\ res[c].body.shape = "error"
         /\ res[c].body.code = InvalidRequest

\* C29: onmessage is invoked at most once on an adapter; a JSON array body
\* is rejected by the pre-checks of the route and by start(), and none of
\* its elements is delivered to the Session Engine.
C29_NoBatchDelivery ==
  \A c \in Conns :
    /\ transport[c].onmessageCalls <= 1
    /\ (req[c].pc # "idle" /\ req[c].inbound.t = "array")
         => /\ transport[c].onmessageCalls = 0
            /\ res[c].body = RpcError("null", InvalidRequest)
            /\ res[c].status = (IF Accepted(c) THEN 200 ELSE 400)
            /\ req[c].pc = "returned"

C29_Witness ==
  \E c \in Conns :
    /\ Accepted(c)
    /\ req[c].inbound.t = "array"
    /\ req[c].inbound.n = MaxBatch
    /\ res[c].by = "sendError"
    /\ transport[c].onmessageCalls = 0

\* C24: there is no timeout on the forwarded path: as long as the Session
\* Engine has called neither send() nor close() for a forwarded message,
\* the adapter writes nothing, its completion signal does not fire and the
\* request stays suspended in start().
C24_NoTimeout ==
  [][\A c \in Conns :
       (req[c].pc = "awaiting" /\ ~engine[c].called /\ ~engine'[c].called)
         => /\ req'[c].pc = "awaiting"
            /\ res'[c] = res[c]
            /\ ~res'[c].headersSent
            /\ transport'[c] = transport[c]
            /\ transport'[c].resolveCalls = 0
    ]_vars

C24_Witness ==
  \E c \in Conns :
    /\ req[c].pc = "awaiting"
    /\ req[c].inbound.method = "tools/list"
    /\ req[c].inbound.id = "s:1"
    /\ ~engine[c].called
    /\ transport[c].resolveCalls = 0
    /\ res[c].attempts = 0

\* C25: the HTTP response written for a forwarded request with id X is the
\* Session Engine's response to X: a notification or a request of the
\* engine's own passed to send() is never written as the HTTP response.
C25_OnlyTheResponseIsWritten ==
  \A c \in Conns :
    (Accepted(c) /\ transport[c].onmessageCalls > 0
       /\ req[c].inbound.id # "undefined")
      => /\ res[c].by = "direct" => res[c].body.shape \in {"result", "error"}
         /\ res[c].by = "wrapped" => res[c].body.result.kind # "message"

\* C26: every tool the catalog lists has an entry in TOOL_HANDLERS, so a
\* tools/call for a listed tool is never answered with "Unknown tool".
C26_ListedToolsHaveHandlers ==
  \A c \in Conns :
    (engine[c].tool.ran /\ engine[c].tool.name \in ALL_TOOLS)
      => /\ engine[c].tool.name \in DOMAIN TOOL_HANDLERS
         /\ engine[c].tool.error # "McpError:MethodNotFound"

\* The Authorization header of the request of connection c is missing or
\* is not a bearer token.
NoBearer(c) == http.request[c].authorization \in {"undefined", "Basic x"}

\* C27: with MCP_AUTH_TOKEN configured, a request to a path other than
\* /health without a bearer token is answered 401 and one with another
\* token 403; no adapter is constructed and no tool handler runs for it.
C27_AuthBeforeRoute ==
  \A c \in Conns :
    (/\ http.token # "undefined"
     /\ http.request[c].path # "/health"
     /\ http.request[c].authorization # "Bearer " \o http.token
     /\ res[c].headersSent)
      => /\ res[c].status = (IF NoBearer(c) THEN 401 ELSE 403)
         /\ ~Accepted(c)
         /\ ~engine[c].tool.ran

\* Two outcomes of a call-tool handler agree: both thrown, or both
\* returned with the same isError.
SameOutcome(a, b) ==
  /\ a.threw = b.threw
  /\ ~a.threw => a.result.isError = b.result.isError

\* The upstream behaviours under which the HTTP handler gives the outcome
\* recorded for the tool call of connection c.
UpstreamsOf(c) ==
  {u \in Upstreams :
     CallToolHandler(engine[c].tool.name, engine[c].tool.provided, u)
       = engine[c].tool.out}

\* C28: for the tool name and arguments of a tool call over HTTP /mcp, the
\* stdio and SSE call-tool handlers give the same outcome as the HTTP one,
\* and a failure is in each a returned result with isError true, never a
\* thrown error.
C28_EntryPointsAgree ==
  \A c \in Conns :
    engine[c].tool.ran =>
      \A u \in UpstreamsOf(c) :
        LET t == engine[c].tool
            stdio == CallToolHandlerStdio(t.name, t.provided, u)
            sse == CallToolHandlerSse(t.name, t.provided, u)
        IN  /\ SameOutcome(t.out, stdio)
            /\ SameOutcome(t.out, sse)
            /\ t.failed =>
                 \A o \in {t.out, stdio, sse} :
                   ~o.threw /\ o.result.isError

====
